---- MODULE Spec2Model ----
(***************************************************************************)
(* Model of remote-uci's Engine (src/remote-uci/src/engine.rs): the       *)
(* gateway between callers and one UCI engine subprocess.  The Engine      *)
(* struct's fields are the state; send, send_dangerous, recv, ensure_idle, *)
(* ensure_newgame and new are the operations.  The engine subprocess is    *)
(* the environment: what it writes is what recv reads, and it may close    *)
(* its output.  The stdin pipe is taken to accept every write.             *)
(***************************************************************************)
EXTENDS Integers, Sequences, FiniteSets, TLC

\* ---------------------------------------------------------------- bounds
\* A caller stops adding probes / handshake-starts at this many outstanding.
MaxAcks == 1
\* Of the lines one call transmits, the first MaxLines are recorded.
MaxLines == 4
\* Size of the initial option map handed to the constructor.
MaxInit == 1
\* Largest option value / declared maximum in the universe.
MaxVal == 3

\* ---------------------------------------------------------------- data
\* EngineParameters handed to Engine::new.
params == [max_threads |-> 2, max_hash |-> 1]

Names == {"Threads", "Hash", "Debug Log File"}
Values == {0, 1, MaxVal}

\* Option name safety policy (crate::uci, UciOptionName::is_safe).
is_safe(name) == name \in {"Threads", "Hash"}

\* UciOption shapes: absent, Spin{min,max} and String.
NoOption == [kind |-> "none", min |-> 0, max |-> 0]
Spin(mn, mx) == [kind |-> "spin", min |-> mn, max |-> mx]
StringOption == [kind |-> "string", min |-> 0, max |-> 0]
\* What the engine may declare for each option name.
DeclaredSpecs(n) ==
    IF n = "Threads" THEN {Spin(1, 1), Spin(1, MaxVal), StringOption}
    ELSE {Spin(1, MaxVal)}

Min(a, b) == IF a < b THEN a ELSE b

\* UciOption::validate (crate::uci): a spin value must lie in [min, max].
validate(option, value) ==
    IF option.kind = "spin"
    THEN value >= option.min /\ value <= option.max
    ELSE TRUE

\* UciOption::limit_max (crate::uci): lowers, never raises, a spin maximum.
limit_max(option, limit) ==
    IF option.kind = "spin"
    THEN [option EXCEPT !.max = Min(@, limit)]
    ELSE option

\* UciIn commands.
Cmd(t) == [t |-> t, name |-> "", value |-> 0]
Setoption(n, v) == [t |-> "setoption", name |-> n, value |-> v]
NoCmd == Cmd("none")
Commands ==
    {Cmd(t) : t \in {"uci", "isready", "stop", "ponderhit", "ucinewgame", "go"}}
    \cup {Setoption(n, v) : n \in Names, v \in Values}

\* Lines the engine can write.  "garbage" fails to parse, "unknown" parses
\* to nothing, "info" carries the set of populated sub-fields.
NoName == ""
Ln(t) == [t |-> t, name |-> "", spec |-> NoOption, fields |-> {}]
NoLine == Ln("none")
InfoLine(fs) == [t |-> "info", name |-> "", spec |-> NoOption, fields |-> fs]
OptionLine(n, s) == [t |-> "option", name |-> n, spec |-> s, fields |-> {}]
IdNameLine == [t |-> "idname", name |-> "Fish", spec |-> NoOption, fields |-> {}]
InfoLines == {InfoLine(fs) : fs \in {{}, {"depth"}, {"score"}}}
OptionLines ==
    UNION {{OptionLine(n, s) : s \in DeclaredSpecs(n)} : n \in Names}
Lines ==
    {Ln(t) : t \in {"uciok", "readyok", "bestmove", "garbage", "unknown"}}
    \cup {IdNameLine} \cup InfoLines \cup OptionLines

\* ---------------------------------------------------------------- state
VARIABLES
    pending_uciok,    \* Engine.pending_uciok
    pending_readyok,  \* Engine.pending_readyok
    searching,        \* Engine.searching
    options,          \* Engine.options
    name,             \* Engine.name
    sent,             \* lines written to the engine's stdin by the call in
                      \* progress or last completed, in order (the first
                      \* MaxLines of them)
    closed,           \* the engine's stdout has reached its end
    pc,               \* position of the single flow of control
    ret,              \* where ensure_idle returns to
    initopts,         \* initial options not yet applied by Engine::new
    call,             \* the call in progress or last completed
    result,           \* its result
    ev,               \* line read by the last step, if it read one
    kind,             \* which engine runs: "arbitrary" or "cooperative"
    eng,              \* the engine: what it was asked and has not yet
                      \* answered; the cooperative one also whether a stop
                      \* reached its search
    decl              \* what the engine last declared for each option name
                      \* in the current handshake

gw == <<pending_uciok, pending_readyok, searching, options, name>>
vars == <<pending_uciok, pending_readyok, searching, options, name, sent,
          closed, pc, ret, initopts, call, result, ev, kind, eng, decl>>

Self == [pending_uciok |-> pending_uciok, pending_readyok |-> pending_readyok,
         searching |-> searching, options |-> options, name |-> name]

SetSelf(s) ==
    /\ pending_uciok' = s.pending_uciok
    /\ pending_readyok' = s.pending_readyok
    /\ searching' = s.searching
    /\ options' = s.options
    /\ name' = s.name


\* ---------------------------------------------------------------- send
Res(s, r, out) == [self |-> s, res |-> r, out |-> out]

BusyExempt == {"isready", "stop", "ponderhit"}

\* Variant: the search-start arm is matched before the busy guard.
rejects_busy_after_go(self, command) ==
    self.searching /\ command.t \notin (BusyExempt \cup {"go"})

\* send_dangerous, arms 1-3: Isready, Stop and Ponderhit are matched before
\* the `_ if self.searching` guard; everything else is rejected while busy.
rejects_busy(self, command) ==
    self.searching /\ command.t \notin BusyExempt

\* Variant: probes are counted twice.
on_isready_twice(self) == [self EXCEPT !.pending_readyok = @ + 2]

\* send_dangerous, Isready arm.
on_isready(self) == [self EXCEPT !.pending_readyok = @ + 1]

\* Variant: the registry survives a handshake-start.
on_uci_keep_options(self) ==
    [self EXCEPT !.pending_uciok = @ + 1, !.name = NoName]

\* send_dangerous, Uci arm.
on_uci(self) ==
    [self EXCEPT !.pending_uciok = @ + 1,
                 !.options = [n \in Names |-> NoOption],
                 !.name = NoName]

\* Variant: the search flag is not raised.
on_go_forgets(self) == self

\* send_dangerous, Go arm.
on_go(self) == [self EXCEPT !.searching = TRUE]

\* Variant: an unknown option is reported as an invalid value.
on_setoption_unknown_fails(self, command) ==
    IF self.options[command.name] # NoOption
       /\ validate(self.options[command.name], command.value)
    THEN "transmit"
    ELSE "invalid"

\* Variant: a known option's value is passed on without validation.
on_setoption_unchecked(self, command) ==
    IF self.options[command.name] # NoOption THEN "transmit" ELSE "ignore"

\* send_dangerous, Setoption arm: what becomes of the command.
on_setoption(self, command) ==
    IF self.options[command.name] # NoOption
    THEN IF validate(self.options[command.name], command.value)
         THEN "transmit"
         ELSE "invalid"
    ELSE "ignore"

\* Variant: the Setoption arm takes the entry out of the registry
\* (`remove` for `get`).
send_dangerous_takes_option(self, command) ==
    LET taken == [self EXCEPT !.options[command.name] = NoOption]
    IN CASE command.t = "isready" -> Res(on_isready(self), "Ok", <<command>>)
         [] command.t \in {"stop", "ponderhit"} -> Res(self, "Ok", <<command>>)
         [] OTHER ->
            IF rejects_busy(self, command) THEN Res(self, "Busy", <<>>)
            ELSE CASE command.t = "uci" ->
                        Res(on_uci(self), "Ok", <<command>>)
                   [] command.t = "go" -> Res(on_go(self), "Ok", <<command>>)
                   [] command.t = "setoption" ->
                      CASE on_setoption(self, command) = "transmit" ->
                               Res(taken, "Ok", <<command>>)
                        [] on_setoption(self, command) = "invalid" ->
                               Res(taken, "InvalidOption", <<>>)
                        [] OTHER -> Res(self, "Ok", <<>>)
                   [] OTHER -> Res(self, "Ok", <<command>>)

\* Engine::send_dangerous: the new fields, the result and the line written.
send_dangerous(self, command) ==
    CASE command.t = "isready" -> Res(on_isready(self), "Ok", <<command>>)
      [] command.t \in {"stop", "ponderhit"} -> Res(self, "Ok", <<command>>)
      [] OTHER ->
         IF rejects_busy(self, command) THEN Res(self, "Busy", <<>>)
         ELSE CASE command.t = "uci" -> Res(on_uci(self), "Ok", <<command>>)
                [] command.t = "go" -> Res(on_go(self), "Ok", <<command>>)
                [] command.t = "setoption" ->
                   CASE on_setoption(self, command) = "transmit" ->
                            Res(self, "Ok", <<command>>)
                     [] on_setoption(self, command) = "invalid" ->
                            Res(self, "InvalidOption", <<>>)
                     [] OTHER -> Res(self, "Ok", <<>>)
                [] OTHER -> Res(self, "Ok", <<command>>)

\* Variant: no safety screen.
send_unscreened(self, command) == send_dangerous(self, command)

\* Engine::send: the safety screen in front of send_dangerous.
send(self, command) ==
    IF command.t = "setoption" /\ ~is_safe(command.name)
    THEN Res(self, "Ok", <<>>)
    ELSE send_dangerous(self, command)

\* Variant: the initial options go through the safety screen.
apply_initial_screened(self, command) == send(self, command)

\* Engine::new: how an initial option is sent.
apply_initial(self, command) == send_dangerous(self, command)

\* Variant: the two lines reach the pipe in the opposite order.
send2_reordered(self, c1, c2) ==
    LET r1 == send(self, c1)
        r2 == send(r1.self, c2)
    IN IF r1.res # "Ok" THEN r1 ELSE Res(r2.self, r2.res, r2.out \o r1.out)

\* Two screened sends in a row, the second only if the first succeeded
\* (the `?` after each await).
send2(self, c1, c2) ==
    LET r1 == send(self, c1)
        r2 == send(r1.self, c2)
    IN IF r1.res # "Ok" THEN r1 ELSE Res(r2.self, r2.res, r1.out \o r2.out)

\* ---------------------------------------------------------------- recv
\* Variant: a progress line is noise only when it carries no field at all.
skipped_only_empty(line) ==
    \/ line.t = "unknown"
    \/ line.t = "info" /\ line.fields = {}

\* recv: lines that are read and dropped without being returned.
skipped(line) ==
    \/ line.t = "unknown"
    \/ line.t = "info" /\ line.fields \cap {"pv", "string", "score"} = {}

\* Variant: the clamp is applied on top of the stored entry.
clamped_compounding(self, line) ==
    LET old == self.options[line.name]
        lim == IF line.name = "Threads" THEN params.max_threads
               ELSE params.max_hash
        opt == IF line.name \in {"Threads", "Hash"}
               THEN limit_max(line.spec, lim) ELSE line.spec
    IN IF old.kind = "spin" THEN limit_max(opt, old.max) ELSE opt

\* Variant: only the thread count is limited.
clamped_threads_only(self, line) ==
    IF line.name = "Threads" THEN limit_max(line.spec, params.max_threads)
    ELSE line.spec

\* Variant: the limit is applied only to an option that is already stored.
clamped_if_known(self, line) ==
    IF self.options[line.name] = NoOption THEN line.spec
    ELSE IF line.name = "Threads"
         THEN limit_max(line.spec, params.max_threads)
    ELSE IF line.name = "Hash" THEN limit_max(line.spec, params.max_hash)
    ELSE line.spec

\* recv, Option arm: the advertised spec with the engine parameters applied.
clamped(self, line) ==
    IF line.name = "Threads" THEN limit_max(line.spec, params.max_threads)
    ELSE IF line.name = "Hash" THEN limit_max(line.spec, params.max_hash)
    ELSE line.spec

\* Variant: a plain decrement.
plain_dec(a) == a - 1

\* a.saturating_sub(1)
saturating_dec(a) == IF a = 0 THEN 0 ELSE a - 1

\* recv: the state update for a returned event.
on_event(self, line) ==
    CASE line.t = "idname" -> [self EXCEPT !.name = line.name]
      [] line.t = "uciok" ->
            [self EXCEPT !.pending_uciok = saturating_dec(@)]
      [] line.t = "readyok" ->
            [self EXCEPT !.pending_readyok = saturating_dec(@)]
      [] line.t = "bestmove" -> [self EXCEPT !.searching = FALSE]
      [] line.t = "option" ->
            [self EXCEPT !.options[line.name] = clamped(self, line)]
      [] OTHER -> self

\* ---------------------------------------------------------------- accessors
\* Engine::max_threads
max_threads ==
    IF options["Threads"].kind = "spin" THEN options["Threads"].max ELSE 1

\* Engine::max_hash
max_hash ==
    IF options["Hash"].kind = "spin" THEN options["Hash"].max ELSE 16

\* Variant: outstanding probes are not looked at.
is_idle_ignores_probes(self) == self.pending_uciok = 0 /\ ~self.searching

\* Engine::is_idle
is_idle(self) ==
    self.pending_uciok = 0 /\ self.pending_readyok = 0 /\ ~self.searching

\* Variant: a running search is waited on, never interrupted.
needs_interrupt_never(self) == FALSE

\* Variant: an interrupt is sent on every round while searching.
needs_interrupt_always(self) == self.searching

\* ensure_idle: whether this round sends stop + isready first.
needs_interrupt(self) == self.searching /\ self.pending_readyok < 1


\* ---------------------------------------------------------------- engine input
\* The engine takes note of a line as soon as it is written; what it
\* answers comes later, in its own steps.
consume(e, command) ==
    CASE command.t = "uci" -> [e EXCEPT !.uci = @ + 1]
      [] command.t = "isready" -> [e EXCEPT !.ready = @ + 1]
      [] command.t = "go" -> [e EXCEPT !.searching = TRUE]
      [] command.t = "stop" -> [e EXCEPT !.stop = e.searching]
      [] OTHER -> e

RECURSIVE consume_all(_, _)
consume_all(e, out) ==
    IF out = <<>> THEN e ELSE consume_all(consume(e, Head(out)), Tail(out))

\* The record of the lines written, `out` being the latest.
Written(out) ==
    LET all == sent \o out
    IN IF Len(all) <= MaxLines THEN all ELSE SubSeq(all, 1, MaxLines)

\* Lines `out` go down the stdin pipe.  A uci makes the engine declare its
\* options anew.
Transmit(out) ==
    /\ eng' = IF kind = "cooperative" THEN consume_all(eng, out)
              ELSE [consume_all(eng, out) EXCEPT !.stop = FALSE]
    /\ decl' = IF \E i \in DOMAIN out : out[i].t = "uci"
               THEN [n \in Names |-> NoOption]
               ELSE decl

\* ---------------------------------------------------------------- calls
\* Record of a call, taken when it starts: what was asked and the fields
\* the properties refer to as "before the call".  `prev` and `again` follow
\* a configuration-set through being transmitted, declared again with the
\* same spec, and sent again.
CallRec(op, cmd) ==
    [op |-> op, cmd |-> cmd, busy0 |-> searching, pr0 |-> pending_readyok,
     pu0 |-> pending_uciok, idle0 |-> FALSE, eof0 |-> closed,
     known0 |-> (name # NoName \/ \E n \in Names : options[n] # NoOption),
     same |-> FALSE, early |-> FALSE, prev |-> NoCmd, again |-> FALSE]

\* Of ensure_idle and ensure_newgame: whether a search ran, the probes
\* outstanding, and whether the instance was idle.
DrainCall(op) ==
    [op |-> op, cmd |-> NoCmd, busy0 |-> searching, pr0 |-> pending_readyok,
     pu0 |-> 0, idle0 |-> is_idle(Self), eof0 |-> closed, known0 |-> FALSE,
     same |-> FALSE, early |-> FALSE, prev |-> NoCmd, again |-> FALSE]

\* Of new the call itself is recorded, and later the initial option it
\* applied last.
BareCall(op) ==
    [op |-> op, cmd |-> NoCmd, busy0 |-> FALSE, pr0 |-> 0, pu0 |-> 0,
     idle0 |-> FALSE, eof0 |-> closed, known0 |-> FALSE,
     same |-> FALSE, early |-> FALSE, prev |-> NoCmd, again |-> FALSE]

\* Of recv: the counters and the search flag it found, and the
\* configuration-set the call before it transmitted, if it did.
RecvCall ==
    [BareCall("recv") EXCEPT
        !.busy0 = searching, !.pr0 = pending_readyok, !.pu0 = pending_uciok,
        !.prev = IF call.op \in {"send", "send_dangerous"}
                    /\ call.cmd.t = "setoption" /\ sent = <<call.cmd>>
                 THEN call.cmd ELSE NoCmd]

\* Of a send: whether it repeats the configuration-set that was transmitted
\* two calls ago and declared again, unchanged, by the recv in between.
SendCall(op, c, r) ==
    [CallRec(op, c) EXCEPT
        !.same = (r.self = Self),
        !.again = (call.op = "recv" /\ result = "Ok" /\ call.again
                      /\ call.prev = c)]

InitOptionMaps ==
    {m \in SUBSET (Names \X Values) :
        /\ Cardinality(m) <= MaxInit
        /\ \A a \in m, b \in m : a[1] = b[1] => a = b}

\* The Engine struct literal in Engine::new, before the handshake.
Init ==
    /\ pending_uciok = 0
    /\ pending_readyok = 0
    /\ searching = FALSE
    /\ options = [n \in Names |-> NoOption]
    /\ name = NoName
    /\ sent = <<>>
    /\ closed = FALSE
    /\ pc = "new"
    /\ ret = "new_opts"
    /\ initopts \in InitOptionMaps
    /\ call = [BareCall("new") EXCEPT !.eof0 = FALSE]
    /\ result = "pending"
    /\ ev = NoLine
    /\ kind \in {"arbitrary", "cooperative"}
    /\ eng = [searching |-> FALSE, stop |-> FALSE, ready |-> 0, uci |-> 0]
    /\ decl = [n \in Names |-> NoOption]

\* An error propagates out of the call in progress; a failed Engine::new
\* yields no instance.
Fail(err) ==
    /\ pc' = IF call.op = "new" THEN "failed" ELSE "ready"
    /\ result' = err

\* Engine::new, `engine.send(session, UciIn::Uci)` then ensure_idle.
NewUci ==
    /\ pc = "new"
    /\ LET r == send(Self, Cmd("uci"))
       IN /\ SetSelf(r.self)
          /\ sent' = r.out
          /\ Transmit(r.out)
          /\ IF r.res = "Ok"
             THEN pc' = "ei_loop" /\ UNCHANGED result
             ELSE Fail(r.res)
    /\ ret' = "new_opts"
    /\ ev' = NoLine
    /\ UNCHANGED <<initopts, call, closed, kind>>

\* Engine::new, one round of `for (name, value) in options`.
NewSetoption ==
    /\ pc = "new_opts"
    /\ \E o \in initopts :
         LET r == apply_initial(Self, Setoption(o[1], o[2]))
         IN /\ SetSelf(r.self)
            /\ call' = [call EXCEPT !.cmd = Setoption(o[1], o[2])]
            /\ sent' = Written(r.out)
            /\ Transmit(r.out)
            /\ initopts' = initopts \ {o}
            /\ IF r.res = "Ok"
               THEN UNCHANGED <<pc, result>>
               ELSE Fail(r.res)
    /\ ev' = NoLine
    /\ UNCHANGED <<ret, closed, kind>>

\* Engine::new, `Ok(engine)`.
NewDone ==
    /\ pc = "new_opts"
    /\ initopts = {}
    /\ pc' = "ready"
    /\ result' = "Ok"
    /\ ev' = NoLine
    /\ UNCHANGED <<gw, sent, ret, initopts, call, closed,
                   kind, eng, decl>>

\* The caller does not pile up more than MaxAcks probes or handshakes.
Affordable(c) ==
    /\ c.t = "isready" => pending_readyok < MaxAcks
    /\ c.t = "uci" => pending_uciok < MaxAcks

\* A caller's Engine::send.
Send ==
    /\ pc = "ready"
    /\ \E c \in Commands :
         LET r == send(Self, c)
         IN /\ Affordable(c)
            /\ SetSelf(r.self)
            /\ sent' = r.out
            /\ Transmit(r.out)
            /\ call' = SendCall("send", c, r)
            /\ result' = r.res
    /\ ev' = NoLine
    /\ UNCHANGED <<pc, ret, initopts, closed, kind>>

\* A caller's Engine::send_dangerous.
SendDangerous ==
    /\ pc = "ready"
    /\ \E c \in Commands :
         LET r == send_dangerous(Self, c)
         IN /\ Affordable(c)
            /\ SetSelf(r.self)
            /\ sent' = r.out
            /\ Transmit(r.out)
            /\ call' = SendCall("send_dangerous", c, r)
            /\ result' = r.res
    /\ ev' = NoLine
    /\ UNCHANGED <<pc, ret, initopts, closed, kind>>

\* A caller's Engine::recv: enter the read loop.
Recv ==
    /\ pc = "ready"
    /\ pc' = "recv"
    /\ call' = RecvCall
    /\ sent' = <<>>
    /\ result' = "pending"
    /\ ev' = NoLine
    /\ UNCHANGED <<gw, ret, initopts, closed, kind, eng, decl>>

\* A caller's Engine::is_idle: `&self`, so it only reads.
IsIdle ==
    /\ pc = "ready"
    /\ call' = CallRec("is_idle", NoCmd)
    /\ result' = IF is_idle(Self) THEN "true" ELSE "false"
    /\ sent' = <<>>
    /\ ev' = NoLine
    /\ UNCHANGED <<gw, pc, ret, initopts, closed, kind, eng, decl>>

\* What the engine's output holds for the next read.  An arbitrary engine
\* writes any line; the cooperative one answers what it was asked.
Incoming ==
    IF kind = "arbitrary"
    THEN IF closed THEN {} ELSE Lines
    ELSE (IF eng.uci > 0
          THEN {Ln("uciok"), IdNameLine} \cup OptionLines ELSE {})
         \cup (IF eng.ready > 0 THEN {Ln("readyok")} ELSE {})
         \cup (IF eng.searching THEN {Ln("bestmove")} \cup InfoLines ELSE {})

\* The engine after writing `line`: an answer settles what it answers; an
\* acknowledgment nobody asked for (only the arbitrary engine writes one)
\* settles nothing.
produced(e, line) ==
    CASE line.t = "uciok" -> [e EXCEPT !.uci = IF @ > 0 THEN @ - 1 ELSE 0]
      [] line.t = "readyok" -> [e EXCEPT !.ready = IF @ > 0 THEN @ - 1 ELSE 0]
      [] line.t = "bestmove" -> [e EXCEPT !.searching = FALSE, !.stop = FALSE]
      [] OTHER -> e

\* Variant: a zero-length read is not told apart from an empty line.
ReadEofUnnoticed ==
    /\ pc \in {"recv", "ei_recv"}
    /\ closed \/ kind = "arbitrary"
    /\ closed' = TRUE
    /\ pc' = IF pc = "recv" THEN "ready" ELSE "ei_loop"
    /\ result' = IF pc = "recv" THEN "Ok" ELSE result
    /\ ev' = NoLine
    /\ UNCHANGED <<gw, sent, ret, initopts, call, kind, eng, decl>>

\* recv: read_line returned 0.  An arbitrary engine may have closed its
\* output at any time; once at its end the stream stays there.
ReadEof ==
    /\ pc \in {"recv", "ei_recv"}
    /\ closed \/ kind = "arbitrary"
    /\ closed' = TRUE
    /\ Fail("Eof")
    /\ ev' = NoLine
    /\ UNCHANGED <<gw, sent, ret, initopts, call, kind, eng, decl>>

\* recv: `line` is read; it fails to parse, is skipped, or is applied and
\* returned.
Read(line) ==
    /\ pc \in {"recv", "ei_recv"}
    /\ line \in Incoming
    /\    /\ eng' = produced(eng, line)
          /\ decl' = IF line.t = "option"
                     THEN [decl EXCEPT ![line.name] = line.spec]
                     ELSE decl
          /\ ev' = line
          /\ CASE line.t = "garbage" ->
                    /\ Fail("Decode")
                    /\ UNCHANGED <<gw, call>>
               [] skipped(line) ->
                    UNCHANGED <<gw, call, pc, result>>
               [] OTHER ->
                    /\ SetSelf(on_event(Self, line))
                    /\ call' = [call EXCEPT
                          !.early = @ \/ (line.t = "readyok" /\ searching),
                          !.again = /\ line.t = "option"
                                    /\ call.prev # NoCmd
                                    /\ line.name = call.prev.name
                                    /\ line.spec = decl[line.name]]
                    /\ IF pc = "recv"
                       THEN pc' = "ready" /\ result' = "Ok"
                       ELSE pc' = "ei_loop" /\ UNCHANGED result
    /\ UNCHANGED <<sent, ret, initopts, closed, kind>>

\* recv: one round of its loop that reads a line.
ReadLine == \E line \in Lines : Read(line)

\* A caller's Engine::ensure_idle.
EnsureIdle ==
    /\ pc = "ready"
    /\ pc' = "ei_loop"
    /\ ret' = "ready"
    /\ call' = DrainCall("ensure_idle")
    /\ sent' = <<>>
    /\ result' = "pending"
    /\ ev' = NoLine
    /\ UNCHANGED <<gw, initopts, closed, kind, eng, decl>>

\* ensure_idle: `while !self.is_idle()` is false, the call returns.
EnsureIdleReturn ==
    /\ pc = "ei_loop"
    /\ is_idle(Self)
    /\ pc' = ret
    /\ result' = IF ret = "ready" THEN "Ok" ELSE result
    /\ ev' = NoLine
    /\ UNCHANGED <<gw, sent, ret, initopts, call, closed,
                   kind, eng, decl>>

\* ensure_idle: one round of the loop up to its recv.
EnsureIdleRound ==
    /\ pc = "ei_loop"
    /\ ~is_idle(Self)
    /\ IF needs_interrupt(Self)
       THEN LET r == send2(Self, Cmd("stop"), Cmd("isready"))
            IN /\ SetSelf(r.self)
               /\ sent' = Written(r.out)
               /\ Transmit(r.out)
               /\ IF r.res = "Ok"
                  THEN pc' = "ei_recv" /\ UNCHANGED result
                  ELSE Fail(r.res)
       ELSE /\ pc' = "ei_recv"
            /\ UNCHANGED <<gw, sent, result, eng, decl>>
    /\ ev' = NoLine
    /\ UNCHANGED <<ret, initopts, call, closed, kind>>

\* A caller's Engine::ensure_newgame: its first ensure_idle.
EnsureNewgame ==
    /\ pc = "ready"
    /\ pc' = "ei_loop"
    /\ ret' = "ng_send"
    /\ call' = DrainCall("ensure_newgame")
    /\ sent' = <<>>
    /\ result' = "pending"
    /\ ev' = NoLine
    /\ UNCHANGED <<gw, initopts, closed, kind, eng, decl>>

\* Variant: the probe is sent before the reset.
newgame_commands_swapped == <<Cmd("isready"), Cmd("ucinewgame")>>

\* ensure_newgame: the two commands between its ensure_idle calls.
newgame_commands == <<Cmd("ucinewgame"), Cmd("isready")>>

\* ensure_newgame: send Ucinewgame, send Isready, then ensure_idle again.
NewgameSend ==
    /\ pc = "ng_send"
    /\ LET r == send2(Self, newgame_commands[1], newgame_commands[2])
       IN /\ SetSelf(r.self)
          /\ sent' = Written(r.out)
          /\ Transmit(r.out)
          /\ IF r.res = "Ok"
             THEN pc' = "ei_loop" /\ UNCHANGED result
             ELSE Fail(r.res)
    /\ ret' = "ready"
    /\ ev' = NoLine
    /\ UNCHANGED <<initopts, call, closed, kind>>

Next ==
    \/ NewUci
    \/ NewSetoption
    \/ NewDone
    \/ Send
    \/ SendDangerous
    \/ Recv
    \/ IsIdle
    \/ ReadEof
    \/ ReadLine
    \/ EnsureIdle
    \/ EnsureIdleReturn
    \/ EnsureIdleRound
    \/ EnsureNewgame
    \/ NewgameSend

Spec == Init /\ [][Next]_vars

\* The gateway against a cooperative engine only: the engine answers every
\* uci with uciok, every isready with readyok and a stop received during a
\* search with bestmove, each eventually; it never closes its output.  The
\* flow of control inside ensure_idle keeps running.
LiveInit == Init /\ kind = "cooperative"

LiveNext ==
    \/ NewUci
    \/ NewSetoption
    \/ NewDone
    \/ Send
    \/ SendDangerous
    \/ Recv
    \/ IsIdle
    \/ ReadLine
    \/ EnsureIdle
    \/ EnsureIdleReturn
    \/ EnsureIdleRound
    \/ EnsureNewgame
    \/ NewgameSend

Fairness ==
    /\ WF_vars(EnsureIdleRound)
    /\ WF_vars(EnsureIdleReturn)
    /\ SF_vars(pc = "ei_recv" /\ Read(Ln("uciok")))
    /\ SF_vars(pc = "ei_recv" /\ Read(Ln("readyok")))
    /\ SF_vars(pc = "ei_recv" /\ eng.stop /\ Read(Ln("bestmove")))

LiveSpec == LiveInit /\ [][LiveNext]_vars /\ Fairness


\* ---------------------------------------------------------------- properties
Returned == result # "pending"
IsSend == call.op \in {"send", "send_dangerous"}
UnsafeSet(c) == c.t = "setoption" /\ ~is_safe(c.name)
\* The last call was a screened send of an unsafe configuration-set.
Screened == call.op = "send" /\ UnsafeSet(call.cmd)
IsPrefix(a, b) == Len(a) <= Len(b) /\ a = SubSeq(b, 1, Len(a))
Idle == pending_uciok = 0 /\ pending_readyok = 0 /\ searching = FALSE
OutOfRange(opt, v) == opt.kind = "spin" /\ (v < opt.min \/ v > opt.max)

\* C1, as claimed: every command other than isready, stop and ponderhit
\* submitted while busy is rejected as busy and nothing is transmitted.
C1_AsClaimed ==
    (IsSend /\ call.busy0 /\ call.cmd.t \notin BusyExempt)
        => (result = "Busy" /\ sent = <<>>)

\* C1, amended: a command other than isready, stop and ponderhit submitted
\* while busy transmits nothing; it is rejected as busy, except that the
\* screened send absorbs a configuration-set of an unsafe option with
\* success.  A search-start is therefore always rejected as busy.
C1_BusyRejected ==
    (IsSend /\ call.busy0 /\ call.cmd.t \notin BusyExempt)
        => /\ sent = <<>>
           /\ result = IF Screened THEN "Ok" ELSE "Busy"
           /\ call.same

C1_Witness ==
    /\ call.op = "send" /\ call.busy0 /\ call.cmd.t = "go"
    /\ result = "Busy" /\ sent = <<>>

\* C2: isready, stop and ponderhit submitted while busy succeed and are
\* transmitted; isready adds exactly one to pending_readyok and changes
\* nothing else, stop and ponderhit change no field.
C2_ExemptWhileBusy ==
    (IsSend /\ call.busy0 /\ call.cmd.t \in BusyExempt)
        => /\ result = "Ok"
           /\ sent = <<call.cmd>>
           /\ searching
           /\ pending_uciok = call.pu0
           /\ pending_readyok =
                 IF call.cmd.t = "isready" THEN call.pr0 + 1 ELSE call.pr0
           /\ call.cmd.t # "isready" => call.same

C2_Witness ==
    /\ IsSend /\ call.busy0 /\ call.cmd.t = "isready"
    /\ result = "Ok" /\ sent = <<Cmd("isready")>>
    /\ pending_readyok = call.pr0 + 1

\* C3, as claimed: in the construction handshake, screened sends,
\* ensure_idle and ensure_newgame no configuration-set of an unsafe option
\* is ever transmitted.
C3_AsClaimed ==
    call.op # "send_dangerous"
        => \A i \in DOMAIN sent : ~UnsafeSet(sent[i])

\* C3, amended: screened sends, recv, ensure_idle and ensure_newgame never
\* transmit a configuration-set of an unsafe option, whatever its value;
\* the construction handshake can, since it applies the initial options
\* through the unscreened path.
C3_ScreenedNeverUnsafe ==
    call.op \in {"send", "recv", "ensure_idle", "ensure_newgame"}
        => \A i \in DOMAIN sent : ~UnsafeSet(sent[i])

C3_Witness ==
    /\ Screened /\ ~call.busy0
    /\ options[call.cmd.name].kind = "spin"
    /\ ~OutOfRange(options[call.cmd.name], call.cmd.value)
    /\ result = "Ok" /\ sent = <<>>

\* C4, as claimed: a configuration-set of an option that is not in the
\* registry is never transmitted and never returns an error, busy or not.
C4_AsClaimed ==
    (IsSend /\ call.cmd.t = "setoption"
        /\ options[call.cmd.name] = NoOption)
        => (sent = <<>> /\ result = "Ok")

\* C4, amended: a configuration-set of an option that is not in the
\* registry is never transmitted; it returns success when the gateway is
\* not busy (or the screen absorbs it), and the busy error when it reaches
\* the unscreened path while busy.
C4_UnknownDropped ==
    (IsSend /\ call.cmd.t = "setoption"
        /\ options[call.cmd.name] = NoOption)
        => /\ sent = <<>>
           /\ call.same
           /\ result = IF call.busy0 /\ ~Screened THEN "Busy" ELSE "Ok"

C4_Witness ==
    /\ IsSend /\ call.cmd.t = "setoption" /\ is_safe(call.cmd.name)
    /\ options[call.cmd.name] = NoOption
    /\ ~call.busy0 /\ pending_uciok > 0
    /\ result = "Ok" /\ sent = <<>>

\* C5, as claimed: a configuration-set of a registered integer option with
\* a value outside [min, max] fails as an invalid value and is never
\* transmitted, in every state.
C5_AsClaimed ==
    (IsSend /\ call.cmd.t = "setoption"
        /\ OutOfRange(options[call.cmd.name], call.cmd.value))
        => (sent = <<>> /\ result = "InvalidOption")

\* C5, amended: such a command is never transmitted; it fails as an
\* invalid value when the gateway is not busy and the screen does not
\* absorb it, as busy when it reaches the unscreened path while busy, and
\* is absorbed with success by the screen when the option is unsafe.
C5_OutOfRangeRejected ==
    (IsSend /\ call.cmd.t = "setoption"
        /\ OutOfRange(options[call.cmd.name], call.cmd.value))
        => /\ sent = <<>>
           /\ call.same
           /\ result = IF Screened THEN "Ok"
                       ELSE IF call.busy0 THEN "Busy" ELSE "InvalidOption"

C5_Witness ==
    /\ call.op = "send" /\ call.cmd = Setoption("Threads", MaxVal)
    /\ options["Threads"] = Spin(1, params.max_threads)
    /\ ~call.busy0
    /\ result = "InvalidOption" /\ sent = <<>>

StopProbe == <<Cmd("stop"), Cmd("isready")>>

\* C6, as claimed: from busy with no probe outstanding, ensure_idle against
\* a cooperative engine transmits exactly one stop then one isready and
\* nothing else, in whatever order the engine answers.
C6_AsClaimed ==
    (kind = "cooperative" /\ call.op = "ensure_idle"
        /\ call.busy0 /\ call.pr0 = 0)
        => /\ IsPrefix(sent, StopProbe)
           /\ result = "Ok" => sent = StopProbe

\* C6, amended: from busy with no probe outstanding, ensure_idle transmits
\* one stop then one isready first; it transmits nothing else provided no
\* readyok is applied while the search result is still awaited, and
\* transmits a further stop and isready when one is.
C6_OneInterruptOneProbe ==
    (call.op = "ensure_idle" /\ call.busy0 /\ call.pr0 = 0)
        => /\ IsPrefix(sent, StopProbe) \/ IsPrefix(StopProbe, sent)
           /\ pc # "ei_loop" => IsPrefix(StopProbe, sent)
           /\ ~call.early => IsPrefix(sent, StopProbe)
           /\ (result = "Ok" /\ ~call.early) => sent = StopProbe
           /\ (result = "Ok" /\ call.early) => Len(sent) > 2

C6_Witness ==
    /\ kind = "cooperative" /\ call.op = "ensure_idle"
    /\ call.busy0 /\ call.pr0 = 0 /\ ~call.early
    /\ result = "Ok" /\ sent = StopProbe

ResetProbe == <<Cmd("ucinewgame"), Cmd("isready")>>

\* C7: from idle, ensure_newgame transmits exactly ucinewgame then isready,
\* and when it returns successfully the gateway is idle.
C7_NewgameFromIdle ==
    (call.op = "ensure_newgame" /\ call.idle0)
        => /\ IsPrefix(sent, ResetProbe)
           /\ result = "Ok" => (sent = ResetProbe /\ Idle)

C7_Witness ==
    /\ call.op = "ensure_newgame" /\ call.idle0
    /\ result = "Ok" /\ sent = ResetProbe /\ Idle

C9_ClampFresh ==
    (ev.t = "option" /\ ev.spec.kind = "spin")
        => /\ options[ev.name].kind = "spin"
           /\ options[ev.name].min = ev.spec.min
           /\ ev.name = "Threads" =>
                 /\ options["Threads"].max
                       = Min(ev.spec.max, params.max_threads)
                 /\ max_threads = Min(ev.spec.max, params.max_threads)
           /\ ev.name = "Hash" =>
                 /\ options["Hash"].max = Min(ev.spec.max, params.max_hash)
                 /\ max_hash = Min(ev.spec.max, params.max_hash)

C9_Witness ==
    /\ ev = OptionLine("Threads", Spin(1, MaxVal))
    /\ options["Threads"] = Spin(1, params.max_threads)
    /\ params.max_threads < MaxVal

\* C10: an accepted uci adds exactly one to pending_uciok and leaves the
\* registry empty and the identity absent.
C10_HandshakeResets ==
    (IsSend /\ call.cmd.t = "uci" /\ result = "Ok")
        => /\ pending_uciok = call.pu0 + 1
           /\ pending_readyok = call.pr0
           /\ \A n \in Names : options[n] = NoOption
           /\ name = NoName
           /\ sent = <<call.cmd>>

C10_Witness ==
    /\ IsSend /\ call.cmd.t = "uci" /\ result = "Ok"
    /\ call.known0
    /\ pending_uciok = call.pu0 + 1
    /\ \A n \in Names : options[n] = NoOption
    /\ name = NoName

\* C11: is_idle answers true in exactly the states where pending_uciok = 0,
\* pending_readyok = 0 and searching is false, and the call changes none of
\* these fields.
C11_IdleExactly ==
    call.op = "is_idle"
        => /\ (result = "true")
                 <=> (call.pu0 = 0 /\ call.pr0 = 0 /\ ~call.busy0)
           /\ result \in {"true", "false"}
           /\ pending_uciok = call.pu0
           /\ pending_readyok = call.pr0
           /\ searching = call.busy0

C11_Witness ==
    /\ call.op = "is_idle" /\ result = "false"
    /\ pending_uciok = 0 /\ ~searching /\ pending_readyok > 0

\* The last call was a send whose command passes the screen, the busy guard
\* and, for a configuration-set, the registry lookup and validation.
Admitted ==
    /\ IsSend /\ ~Screened
    /\ call.cmd.t \in BusyExempt \/ ~call.busy0
    /\ call.cmd.t = "setoption" =>
          /\ options[call.cmd.name] # NoOption
          /\ validate(options[call.cmd.name], call.cmd.value)

\* A recv that returned an event has applied that event, and only it, to
\* the fields it found.
Applied ==
    /\ ev # NoLine /\ ev.t # "garbage" /\ ~skipped(ev)
    /\ pending_uciok =
          IF ev.t = "uciok" THEN saturating_dec(call.pu0) ELSE call.pu0
    /\ pending_readyok =
          IF ev.t = "readyok" THEN saturating_dec(call.pr0) ELSE call.pr0
    /\ searching = (call.busy0 /\ ev.t # "bestmove")
    /\ ev.t = "idname" => name = ev.name
    /\ ev.t = "option" => options[ev.name] = clamped(Self, ev)

\* C12: every admitted command is written as exactly one line, its own,
\* before its send returns, and a send that is not admitted writes nothing;
\* the composite calls write their lines in program order (stop before
\* isready, ucinewgame before isready, uci before the initial options);
\* and a recv that returns has applied exactly the line it read last.
C12_InOrder ==
    /\ IsSend => sent = IF Admitted THEN <<call.cmd>> ELSE <<>>
    /\ call.op = "ensure_idle" =>
          \A i \in DOMAIN sent : sent[i] = StopProbe[((i - 1) % 2) + 1]
    /\ call.op = "ensure_newgame" =>
          \A i \in DOMAIN sent :
             /\ i % 2 = 1 => sent[i].t \in {"stop", "ucinewgame"}
             /\ i % 2 = 0 => sent[i] = Cmd("isready")
             /\ sent[i].t = "ucinewgame" => Len(sent) <= i + 1
    /\ call.op = "new" =>
          \A i \in DOMAIN sent :
             IF i = 1 THEN sent[i] = Cmd("uci") ELSE sent[i].t = "setoption"
    /\ call.op \in {"recv", "is_idle"} => sent = <<>>
    /\ (call.op = "recv" /\ result = "Ok") => Applied

C12_Witness ==
    /\ call.op = "ensure_newgame" /\ result = "Ok"
    /\ sent = StopProbe \o ResetProbe

\* C13, as claimed: a configuration-set that was transmitted, whose option
\* the engine then declares again with the same spec, is transmitted again
\* when resent unchanged while not busy.
C13_AsClaimed ==
    (IsSend /\ call.again /\ ~call.busy0)
        => (result = "Ok" /\ sent = <<call.cmd>>)

\* C13, amended: resent unchanged while not busy it validates and is
\* transmitted again on the unscreened path, and on the screened path when
\* its option is safe; the screened path absorbs it with success when the
\* option is unsafe (it was first transmitted by the unscreened path).
C13_RoundTrip ==
    (IsSend /\ call.again /\ ~call.busy0)
        => /\ result = "Ok"
           /\ call.same
           /\ sent = IF Screened THEN <<>> ELSE <<call.cmd>>

C13_Witness ==
    /\ call.op = "send" /\ call.again /\ ~call.busy0
    /\ call.cmd = Setoption("Threads", 1)
    /\ decl["Threads"] = Spin(1, MaxVal)
    /\ result = "Ok" /\ sent = <<call.cmd>>

\* Inside ensure_idle, on its own or as part of new or ensure_newgame.
InDrain == pc \in {"ei_loop", "ei_recv"}

\* C14: against a cooperative engine, fairly scheduled, every ensure_idle
\* returns, and when a caller's ensure_idle has returned successfully the
\* gateway is idle; a search is interrupted, since the engine owes a
\* bestmove only once it has received a stop.
C14_EnsureIdleReturns ==
    /\ InDrain ~> ~InDrain
    /\ []((call.op = "ensure_idle" /\ result = "Ok") => Idle)

C14_Witness ==
    /\ kind = "cooperative" /\ call.op = "ensure_idle"
    /\ call.busy0 /\ call.early
    /\ result = "Ok" /\ Idle /\ Len(sent) = 4

\* C15: Engine::new writes uci first and applies the initial options only
\* once the gateway is idle; an initial option whose name is registered
\* and whose value is valid is written whether its name is safe or not,
\* one whose name is not registered is dropped without failing, and an
\* invalid value fails the construction and is not written.
C15_ConstructionUnscreened ==
    /\ pc = "new_opts" => (Idle /\ sent # <<>> /\ sent[1] = Cmd("uci"))
    /\ (call.op = "new" /\ call.cmd # NoCmd) =>
          LET c == call.cmd
              known == options[c.name] # NoOption
              valid == validate(options[c.name], c.value)
          IN /\ (known /\ valid) =>
                   (sent[Len(sent)] = c /\ pc # "failed")
             /\ ~known =>
                   (pc # "failed" /\ \A i \in DOMAIN sent : sent[i] # c)
             /\ (known /\ ~valid) =>
                   /\ pc = "failed" /\ result = "InvalidOption"
                   /\ \A i \in DOMAIN sent : sent[i] # c

C15_Witness ==
    /\ call.op = "new" /\ pc = "ready" /\ result = "Ok"
    /\ ~is_safe(call.cmd.name)
    /\ sent = <<Cmd("uci"), call.cmd>>

\* C16: a send that writes nothing (rejected as busy or as an invalid
\* value, or absorbed because its option is unsafe or unknown) leaves
\* pending_uciok, pending_readyok, searching, name and options as they
\* were, and the instance goes on taking calls; a rejected send writes
\* nothing.
C16_NoTransmitNoChange ==
    /\ (IsSend /\ sent = <<>>)
          => /\ call.same
             /\ pending_uciok = call.pu0
             /\ pending_readyok = call.pr0
             /\ searching = call.busy0
             /\ result \in {"Busy", "InvalidOption", "Ok"}
             /\ result = "Ok" =>
                   (call.cmd.t = "setoption"
                      /\ (Screened \/ options[call.cmd.name] = NoOption))
             /\ pc = "ready"
    /\ (IsSend /\ result # "Ok") => sent = <<>>

C16_Witness ==
    /\ call.op = "send_dangerous" /\ result = "InvalidOption"
    /\ options[call.cmd.name].kind = "spin"
    /\ sent = <<>> /\ call.same /\ pc = "ready"

\* C17: a uciok (readyok) applied when pending_uciok (pending_readyok) is 0
\* leaves it at 0 and the recv succeeds, otherwise it takes one off; both
\* counters are non-negative in every reachable state, whatever the engine
\* writes.
C17_FloorAtZero ==
    /\ pending_uciok >= 0 /\ pending_readyok >= 0
    /\ (call.op = "recv" /\ Returned /\ ev.t = "uciok") =>
          /\ result = "Ok"
          /\ pending_uciok = IF call.pu0 = 0 THEN 0 ELSE call.pu0 - 1
          /\ pending_readyok = call.pr0
    /\ (call.op = "recv" /\ Returned /\ ev.t = "readyok") =>
          /\ result = "Ok"
          /\ pending_readyok = IF call.pr0 = 0 THEN 0 ELSE call.pr0 - 1
          /\ pending_uciok = call.pu0

C17_Witness ==
    /\ call.op = "recv" /\ result = "Ok" /\ ev.t = "readyok"
    /\ call.pr0 = 0 /\ pending_readyok = 0

\* The last step read a line and recv went on reading.
ReadOn == pc \in {"recv", "ei_recv"} /\ ev # NoLine

\* C18, as claimed: a progress line is skipped if and only if none of its
\* sub-fields is populated.
C18_AsClaimed ==
    ev.t = "info" => (ReadOn <=> ev.fields = {})

\* C18, amended: a progress line is skipped if and only if none of its pv,
\* string and score sub-fields is populated, whatever else it carries; a
\* skipped line changes nothing and reading goes on; every decoded event
\* that is not skipped is returned by the recv that read it, after that
\* event's update and no other.
C18_NoiseFilter ==
    /\ ev.t = "info" =>
          (ReadOn <=> ev.fields \cap {"pv", "string", "score"} = {})
    /\ ReadOn =>
          /\ ev.t \in {"info", "unknown"}
          /\ result = "pending"
          /\ call.op = "recv" =>
                /\ pending_uciok = call.pu0
                /\ pending_readyok = call.pr0
                /\ searching = call.busy0
    /\ (call.op = "recv" /\ ev # NoLine
           /\ ev.t \notin {"info", "unknown", "garbage"}) =>
          (pc = "ready" /\ result = "Ok")
    /\ (call.op = "recv" /\ result = "Ok") => (pc = "ready" /\ Applied)

C18_Witness ==
    /\ call.op = "recv" /\ ReadOn
    /\ ev = InfoLine({"depth"})
    /\ pending_readyok = call.pr0 /\ result = "pending"

\* C19: while the engine's latest declaration of Threads (Hash) is an
\* integer option, no call writes a configuration-set of Threads with a
\* value above max_threads (of Hash with a value above max_hash), on the
\* screened path, the unscreened path or in Engine::new, in any handshake.
C19_CeilingsHold ==
    \A i \in DOMAIN sent :
       /\ (sent[i].t = "setoption" /\ sent[i].name = "Threads"
              /\ decl["Threads"].kind = "spin")
             => sent[i].value <= params.max_threads
       /\ (sent[i].t = "setoption" /\ sent[i].name = "Hash"
              /\ decl["Hash"].kind = "spin")
             => sent[i].value <= params.max_hash

C19_Witness ==
    /\ call.op = "send_dangerous" /\ ~call.busy0
    /\ call.cmd = Setoption("Hash", MaxVal)
    /\ decl["Hash"] = Spin(1, MaxVal) /\ MaxVal > params.max_hash
    /\ call.pu0 = 0 /\ call.known0
    /\ result = "InvalidOption" /\ sent = <<>>

====
